---- MODULE Spec2Model ----
(***************************************************************************)
(* Model of the Drone conversion plugin of src/src/plugin.js: class Plugin *)
(* (constructor, run, #docProcessor, #createCacheStep, #addStepVolumes,    *)
(* #createCacheVolumes, #createCacheMounts) and the cacheMap registry.     *)
(*                                                                         *)
(* JavaScript values are modelled as follows.                              *)
(*   - a string is a TLA+ string; an object is a function whose domain is  *)
(*     the set of its own keys; `undefined` is the value Undefined;        *)
(*   - an array that the code never mutates (steps, caches, settings.mount)*)
(*     is a sequence; the value of a `caches` key is tagged, Arr(seq) or   *)
(*     Scalar(s), so that Array.isArray can be decided;                    *)
(*   - an array that the code mutates in place with push (a step's         *)
(*     `volumes`, a document's `volumes`) lives in the document's heap,    *)
(*     a sequence of arrays, and the key holds its address.  Two keys that *)
(*     hold the same address are the same JavaScript array: this is what   *)
(*     js-yaml builds for a YAML alias of an anchor, or a merge key, and   *)
(*     what structuredClone keeps.  Anchors are local to one document.     *)
(*   - the text run() returns is modelled by the sequence of the document  *)
(*     texts it joins with '---' markers, each text by the value yamlDump  *)
(*     writes: the value a reader of that text gets back.                  *)
(* Input documents are mappings (a ConfigDocument of the specification),   *)
(* steps are mappings with a name, and a volumes key holds an array.       *)
(***************************************************************************)
EXTENDS Integers, Sequences, FiniteSets, TLC

VARIABLES pc, env, image, cachePath, cacheEnv, config, documents, result

vars == <<pc, env, image, cachePath, cacheEnv, config, documents, result>>

(***************************************************************************)
(* Bounds of the model.                                                    *)
(***************************************************************************)
MaxCaches == 2     \* longest `caches` list of a step
MaxSteps == 2      \* most steps in one document
MaxDocs == 2       \* most documents in one stream
MaxEnvKeys == 2    \* most keys in the construction-time environment

(***************************************************************************)
(* Generic helpers for JavaScript values.                                  *)
(***************************************************************************)
Undefined == "<undefined>"

EmptyObj == [k \in {} |-> k]

HasOwn(obj, key) == key \in DOMAIN obj

SetField(obj, key, value) == (key :> value) @@ obj

Arr(seq) == [array |-> seq]

Scalar(s) == [scalar |-> s]

IsArray(v) == "array" \in DOMAIN v

Range(seq) == {seq[i] : i \in DOMAIN seq}

SeqsUpTo(S, n) == UNION {[1..m -> S] : m \in 0..n}

StartsWith(s, prefix) ==
    Len(s) >= Len(prefix) /\ SubSeq(s, 1, Len(prefix)) = prefix

(***************************************************************************)
(* The cache registry, in Object.entries order.                            *)
(***************************************************************************)
cacheMap ==
    << <<"composer", "/root/.composer/cache">>,
       <<"npm", "/root/.npm">>,
       <<"yarn", ".yarn/cache">>,
       <<"dotnetcore", "/root/.nuget/packages">>,
       <<"gradle", "/root/.gradle/caches">>,
       <<"ivy2", "/root/.ivy2/cache">>,
       <<"maven", "/root/.m2/repository">>,
       <<"pip", "/root/.cache/pip">>,
       <<"sbt", "/root/.sbt">> >>

\* cacheMap.hasOwnProperty(kind)
cacheMapHasOwnProperty(kind) == \E i \in DOMAIN cacheMap : cacheMap[i][1] = kind

\* path.charAt(0) === '/'
IsRooted(path) == Len(path) >= 1 /\ SubSeq(path, 1, 1) = "/"

\* Object.entries(cacheMap).filter(pred): the indices kept, in registry order
RECURSIVE FilterEntries(_, _, _)
FilterEntries(i, caches, rootedOnly) ==
    IF i > Len(cacheMap) THEN <<>>
    ELSE (IF cacheMap[i][1] \in caches /\ (~rootedOnly \/ IsRooted(cacheMap[i][2]))
          THEN <<i>> ELSE <<>>) \o FilterEntries(i + 1, caches, rootedOnly)

(***************************************************************************)
(* Plugin.#getCacheEnv: keep the keys matching /^CACHE_/ and replace that  *)
(* prefix by PLUGIN_.                                                      *)
(***************************************************************************)
MatchesCache(key) == StartsWith(key, "CACHE_")

ReplaceCache(key) ==
    IF MatchesCache(key) THEN "PLUGIN_" \o SubSeq(key, 7, Len(key)) ELSE key

\* faulty variant: the filter on /^CACHE_/ is left out
getCacheEnvUnfiltered(e) ==
    [nk \in {ReplaceCache(k) : k \in DOMAIN e} |->
        e[CHOOSE k \in DOMAIN e : ReplaceCache(k) = nk]]

getCacheEnv(e) ==
    LET kept == {k \in DOMAIN e : MatchesCache(k)}
    IN  [nk \in {ReplaceCache(k) : k \in kept} |->
            e[CHOOSE k \in kept : ReplaceCache(k) = nk]]

(***************************************************************************)
(* Plugin.#createCacheMounts, #createCacheVolumes, and the pieces of       *)
(* #createCacheStep.                                                       *)
(***************************************************************************)
createCacheMounts(caches) ==
    LET kept == FilterEntries(1, caches, TRUE)
    IN  [j \in DOMAIN kept |->
            [name |-> cacheMap[kept[j]][1], path |-> cacheMap[kept[j]][2]]]

\* faulty variant: the test on the rooted path is left out
createCacheVolumesUnrooted(caches) ==
    LET kept == FilterEntries(1, caches, FALSE)
    IN  [j \in DOMAIN kept |-> [name |-> cacheMap[kept[j]][1], temp |-> EmptyObj]]

createCacheVolumes(caches) ==
    LET kept == FilterEntries(1, caches, TRUE)
    IN  [j \in DOMAIN kept |-> [name |-> cacheMap[kept[j]][1], temp |-> EmptyObj]]

\* settings.mount: Object.entries(cacheMap).filter(([c]) => caches.has(c)).map(([, p]) => p)
\* faulty variant: only rooted paths are listed
settingsMountRootedOnly(caches) ==
    LET kept == FilterEntries(1, caches, TRUE)
    IN  [j \in DOMAIN kept |-> cacheMap[kept[j]][2]]

settingsMount(caches) ==
    LET kept == FilterEntries(1, caches, FALSE)
    IN  [j \in DOMAIN kept |-> cacheMap[kept[j]][2]]

\* environment.PLUGIN_FILESYSTEM_CACHE_ROOT ?? '/tmp/cache'
\* faulty variant: the environment is not consulted
cacheRootDefaultOnly(environment) == "/tmp/cache"

cacheRoot(environment) ==
    IF HasOwn(environment, "PLUGIN_FILESYSTEM_CACHE_ROOT")
    THEN environment["PLUGIN_FILESYSTEM_CACHE_ROOT"]
    ELSE "/tmp/cache"

\* step?.when: undefined when the step has no such key
\* faulty variant: when is not passed on
stepWhenDropped(step) == Undefined

stepWhen(step) == IF HasOwn(step, "when") THEN step.when ELSE Undefined

\* The step object #createCacheStep builds; its one-element volumes array is
\* new, so it is allocated at the end of the heap.
createCacheStep(stepName, when, action, caches, heap) ==
    LET environment == cacheEnv      \* Object.assign({}, this.#cacheEnv)
        settings == (action :> TRUE) @@ [mount |-> settingsMount(caches)]
    IN  [step |-> [name |-> stepName \o "-cache-" \o action,
                   image |-> image,
                   environment |-> environment,
                   settings |-> settings,
                   volumes |-> Len(heap) + 1,
                   when |-> when],
         heap |-> Append(heap, <<[name |-> "cache", path |-> cacheRoot(environment)]>>)]

\* Plugin.#addStepVolumes: step.volumes = step.volumes ?? []; push in place.
addStepVolumes(step, caches, heap) ==
    IF HasOwn(step, "volumes")
    THEN [step |-> step,
          heap |-> [heap EXCEPT ![step.volumes] = @ \o createCacheMounts(caches)]]
    ELSE [step |-> SetField(step, "volumes", Len(heap) + 1),
          heap |-> Append(heap, createCacheMounts(caches))]

(***************************************************************************)
(* Plugin.#docProcessor: the callback yamlParse calls for each document.   *)
(***************************************************************************)
\* structuredClone keeps the shape of the object graph, shared arrays
\* included; the copy is a new graph with the same addresses.
structuredClone(doc) == doc

\* new Set(step.caches.filter(cacheMap.hasOwnProperty, cacheMap))
stepCaches(step) ==
    {c \in Range(step.caches.array) : cacheMapHasOwnProperty(c)}

\* the array a cache-using step is replaced by
\* faulty variant: the step comes before its restore step
wrapStepMisordered(restoreStep, step, rebuildStep) ==
    <<step, restoreStep, rebuildStep>>

wrapStep(restoreStep, step, rebuildStep) == <<restoreStep, step, rebuildStep>>

\* The flatMap callback on one step.  st is the state of the iteration:
\* the steps returned so far, the heap, and cachesUsed.
flatMapStep(step, st) ==
    IF ~HasOwn(step, "caches") \/ ~IsArray(step.caches)
    THEN [st EXCEPT !.steps = Append(@, step)]
    ELSE
      LET caches == stepCaches(step)
      IN  IF caches = {}
          THEN [st EXCEPT !.steps = Append(@, step)]
          ELSE
            LET restore == createCacheStep(step.name, stepWhen(step), "restore",
                                           caches, st.heap)
                rebuild == createCacheStep(step.name, stepWhen(step), "rebuild",
                                           caches, restore.heap)
                a == addStepVolumes(restore.step, caches, rebuild.heap)
                b == addStepVolumes(step, caches, a.heap)
                c == addStepVolumes(rebuild.step, caches, b.heap)
            IN  [steps |-> st.steps \o wrapStep(a.step, b.step, c.step),
                 heap |-> c.heap,
                 cachesUsed |-> st.cachesUsed \cup caches]

RECURSIVE flatMapSteps(_, _, _)
flatMapSteps(steps, i, st) ==
    IF i > Len(steps) THEN st
    ELSE flatMapSteps(steps, i + 1, flatMapStep(steps[i], st))

\* cachesUsed.size > 0
\* faulty variant: the volumes are added to every pipeline
cachesUsedAlways(cachesUsed) == TRUE

cachesUsedNonEmpty(cachesUsed) == Cardinality(cachesUsed) > 0

docProcessor(originalDoc) ==
    LET doc == structuredClone(originalDoc)
    IN  IF \/ ~HasOwn(doc.root, "kind")       \* doc.kind is undefined
           \/ doc.root.kind # "pipeline"
           \/ ~HasOwn(doc.root, "steps")
        THEN doc
        ELSE
          LET st == flatMapSteps(doc.root.steps, 1,
                                 [steps |-> <<>>, heap |-> doc.heap, cachesUsed |-> {}])
              root == [doc.root EXCEPT !.steps = st.steps]
              added == <<[name |-> "cache", host |-> [path |-> cachePath]]>>
                           \o createCacheVolumes(st.cachesUsed)
          IN  IF cachesUsedNonEmpty(st.cachesUsed)
              THEN IF HasOwn(root, "volumes")
                   THEN [root |-> root,
                         heap |-> [st.heap EXCEPT ![root.volumes] = @ \o added]]
                   ELSE [root |-> SetField(root, "volumes", Len(st.heap) + 1),
                         heap |-> Append(st.heap, added)]
              ELSE [root |-> root, heap |-> st.heap]

\* documents.push(doc)
\* faulty variant: unshift instead of push
pushDocumentFront(docs, doc) == <<doc>> \o docs

pushDocument(docs, doc) == Append(docs, doc)

(***************************************************************************)
(* yamlDump(doc, { noRefs: true }): every array is written out where it is *)
(* used, and a key whose value is undefined is not written.  `when` is the *)
(* only key the code can set to undefined.                                 *)
(***************************************************************************)
yamlDumpObject(obj, heap) ==
    [k \in {key \in DOMAIN obj : ~(key = "when" /\ obj[key] = Undefined)} |->
        IF k = "volumes" THEN heap[obj[k]] ELSE obj[k]]

yamlDump(doc) ==
    LET top == yamlDumpObject(doc.root, doc.heap)
    IN  IF HasOwn(top, "steps")
        THEN [top EXCEPT !.steps =
                 [i \in DOMAIN top.steps |-> yamlDumpObject(top.steps[i], doc.heap)]]
        ELSE top

(***************************************************************************)
(* The inputs: construction-time environments and parsed streams.          *)
(***************************************************************************)
EnvKeys == {"CACHE_FOO", "CACHE_FILESYSTEM_CACHE_ROOT",
            "PLUGIN_FILESYSTEM_CACHE_ROOT", "MY_CACHE_DIR"}

EnvValue(key) ==
    CASE key = "CACHE_FOO" -> "bar"
      [] key = "CACHE_FILESYSTEM_CACHE_ROOT" -> "/bar"
      [] key = "PLUGIN_FILESYSTEM_CACHE_ROOT" -> "/leak"
      [] OTHER -> "/home/cache"

Envs == {[k \in K |-> EnvValue(k)] :
            K \in {K \in SUBSET EnvKeys : Cardinality(K) <= MaxEnvKeys}}

\* kinds a `caches` list is drawn from: two rooted kinds, the non-rooted
\* kind, and a kind the registry does not have
InputKinds == {"maven", "npm", "yarn", "foo"}

StepNames == <<"build", "test", "deploy", "lint">>

\* Every input document has this heap: two arrays for steps' volumes and
\* one for the document's volumes (a step mount and a document volume have
\* different shapes, so no array is both).
InputHeap ==
    << <<[name |-> "docker", path |-> "/var/run/docker.sock"]>>,
       <<>>,
       <<[name |-> "data", host |-> [path |-> "/data"]]>> >>

DocVolumesAddr == Len(InputHeap)

OptField(key, values) == {EmptyObj} \cup {key :> v : v \in values}

\* the steps of single-step documents
RichSteps ==
    {[name |-> StepNames[1], image |-> "node"] @@ c @@ w @@ v :
        c \in OptField("caches", {Scalar("npm")}
                  \cup {Arr(q) : q \in SeqsUpTo(InputKinds, MaxCaches)}),
        w \in OptField("when", {"foo"}),
        v \in OptField("volumes", {1})}

\* the attributes of the steps of documents with several steps
SmallAttrs ==
    {c @@ v :
        c \in OptField("caches", {Arr(<<"npm">>), Arr(<<"yarn", "maven">>)}),
        v \in OptField("volumes", {1, 2})}

StepLists ==
    {<<s>> : s \in RichSteps}
    \cup {[i \in DOMAIN a |-> [name |-> StepNames[i], image |-> "node"] @@ a[i]] :
            a \in UNION {[1..n -> SmallAttrs] : n \in 2..MaxSteps}}

Parsed(root) == [root |-> root, heap |-> InputHeap]

NpmStep == [name |-> StepNames[1], image |-> "node", caches |-> Arr(<<"npm">>)]

PipelineDocs ==
    {Parsed([kind |-> "pipeline", type |-> "docker"] @@ st @@ v) :
        st \in OptField("steps", {<<>>} \cup StepLists),
        v \in OptField("volumes", {DocVolumesAddr})}

OtherDocs ==
    {Parsed([kind |-> "secret", name |-> "token"]),
     Parsed([name |-> "token", steps |-> <<NpmStep>>]),
     Parsed([kind |-> "secret", name |-> "token", steps |-> <<NpmStep>>])}

\* the documents of streams with several documents
SmallDocs ==
    {Parsed([kind |-> "secret", name |-> "token"]),
     Parsed([kind |-> "secret", name |-> "token", steps |-> <<NpmStep>>])}
    \cup {Parsed([kind |-> "pipeline", type |-> "docker"]),
          Parsed([kind |-> "pipeline", type |-> "docker", steps |-> <<NpmStep>>]),
          Parsed([kind |-> "pipeline", type |-> "docker",
                  steps |-> <<[name |-> StepNames[1], image |-> "node"]>>]),
          Parsed([kind |-> "pipeline", type |-> "docker",
                  steps |-> <<[name |-> StepNames[1], image |-> "node",
                               caches |-> Arr(<<"yarn">>)]>>]),
          Parsed([kind |-> "pipeline", type |-> "docker",
                  volumes |-> DocVolumesAddr,
                  steps |-> <<[name |-> StepNames[1], image |-> "node",
                               caches |-> Arr(<<"maven", "npm">>),
                               volumes |-> 1]>>])}

Inputs ==
    {<<>>}
    \cup {<<d>> : d \in PipelineDocs \cup OtherDocs}
    \cup UNION {[1..n -> SmallDocs] : n \in 2..MaxDocs}

(***************************************************************************)
(* The state machine.  Init is a constructed Plugin: the constructor has   *)
(* stored image and cachePath and computed the cache environment.          *)
(***************************************************************************)
Init ==
    /\ pc = "idle"
    /\ env \in Envs
    /\ image = "meltwater/drone-cache"
    /\ cachePath = "/var/lib/cache"
    /\ cacheEnv = getCacheEnv(env)
    /\ config = <<>>
    /\ documents = <<>>
    /\ result = <<>>

\* run(config) is entered: yamlParse has parsed the stream
Run ==
    /\ pc = "idle"
    /\ \E c \in Inputs : config' = c
    /\ documents' = <<>>
    /\ result' = <<>>
    /\ pc' = "parsing"
    /\ UNCHANGED <<env, image, cachePath, cacheEnv>>

\* yamlParse calls the document callback on the next document
DocProcessor ==
    /\ pc = "parsing"
    /\ Len(documents) < Len(config)
    /\ documents' = pushDocument(documents, docProcessor(config[Len(documents) + 1]))
    /\ UNCHANGED <<pc, env, image, cachePath, cacheEnv, config, result>>

\* run serializes the documents and returns the text
Return ==
    /\ pc = "parsing"
    /\ Len(documents) = Len(config)
    /\ result' = [i \in DOMAIN documents |-> yamlDump(documents[i])]
    /\ pc' = "returned"
    /\ UNCHANGED <<env, image, cachePath, cacheEnv, config, documents>>

\* the caller has taken the text; the Plugin waits for the next call
Release ==
    /\ pc = "returned"
    /\ pc' = "idle"
    /\ config' = <<>>
    /\ documents' = <<>>
    /\ result' = <<>>
    /\ UNCHANGED <<env, image, cachePath, cacheEnv>>

Next == Run \/ DocProcessor \/ Return \/ Release

Spec == Init /\ [][Next]_vars

(***************************************************************************)
(* Vocabulary of the properties, stated on the input stream (config) and   *)
(* on the documents of the returned text (result), without the operators   *)
(* of the code above.                                                      *)
(***************************************************************************)
RegistryOrder ==
    <<"composer", "npm", "yarn", "dotnetcore", "gradle", "ivy2", "maven", "pip", "sbt">>

RegistryKinds == Range(RegistryOrder)

RegistryPath(kind) ==
    CASE kind = "composer" -> "/root/.composer/cache"
      [] kind = "npm" -> "/root/.npm"
      [] kind = "yarn" -> ".yarn/cache"
      [] kind = "dotnetcore" -> "/root/.nuget/packages"
      [] kind = "gradle" -> "/root/.gradle/caches"
      [] kind = "ivy2" -> "/root/.ivy2/cache"
      [] kind = "maven" -> "/root/.m2/repository"
      [] kind = "pip" -> "/root/.cache/pip"
      [] kind = "sbt" -> "/root/.sbt"

RootedKinds == {k \in RegistryKinds : SubSeq(RegistryPath(k), 1, 1) = "/"}

Returned == pc = "returned"

\* a step is cache-eligible
Eligible(step) ==
    /\ HasOwn(step, "caches")
    /\ IsArray(step.caches)
    /\ \E j \in DOMAIN step.caches.array : step.caches.array[j] \in RegistryKinds

\* the CacheSet of an eligible step
CacheSet(step) == Range(step.caches.array) \cap RegistryKinds

\* the kinds of a set, in registry order
InRegistryOrder(kinds) ==
    LET Wanted(k) == k \in kinds IN SelectSeq(RegistryOrder, Wanted)

\* the rooted mounts of a set of kinds
RootedMounts(kinds) ==
    LET ks == InRegistryOrder(kinds \cap RootedKinds)
    IN  [j \in DOMAIN ks |-> [name |-> ks[j], path |-> RegistryPath(ks[j])]]

\* input document i is a pipeline with a steps field
IsPipeline(i) == HasOwn(config[i].root, "kind") /\ config[i].root.kind = "pipeline"

Rewritten(i) == IsPipeline(i) /\ HasOwn(config[i].root, "steps")

InSteps(i) == config[i].root.steps

\* the value of a volumes key of input document i
InList(i, obj) == IF HasOwn(obj, "volumes") THEN config[i].heap[obj.volumes] ELSE <<>>

\* an input object written out as a value
Literal(i, obj) ==
    [k \in DOMAIN obj |-> IF k = "volumes" THEN config[i].heap[obj[k]] ELSE obj[k]]

LiteralDoc(i) ==
    LET top == Literal(i, config[i].root)
    IN  IF HasOwn(top, "steps")
        THEN [top EXCEPT !.steps = [j \in DOMAIN top.steps |-> Literal(i, top.steps[j])]]
        ELSE top

Width(step) == IF Eligible(step) THEN 3 ELSE 1

\* the number of output steps that come before those of input step j
RECURSIVE Offset(_, _)
Offset(steps, j) == IF j <= 1 THEN 0 ELSE Offset(steps, j - 1) + Width(steps[j - 1])

\* output document i has as many steps as its input steps expand to
Shaped(i) ==
    /\ i \in DOMAIN result
    /\ HasOwn(result[i], "steps")
    /\ Len(result[i].steps) = Offset(InSteps(i), Len(InSteps(i)) + 1)

\* the k-th of the output steps that stand for input step j of document i
Out(i, j, k) == result[i].steps[Offset(InSteps(i), j) + k]

\* all fields but volumes
ButVolumes(obj) == [k \in DOMAIN obj \ {"volumes"} |-> obj[k]]

\* the eligible steps of the stream, as <<document, step>> indices
EligibleSteps ==
    {ij \in UNION {{<<i, j>> : j \in DOMAIN InSteps(i)} :
                      i \in {d \in DOMAIN config : Rewritten(d)}} :
        Eligible(InSteps(ij[1])[ij[2]])}

\* the kinds used by the eligible steps of document i
UsedKinds(i) ==
    UNION {CacheSet(InSteps(ij[1])[ij[2]]) : ij \in {e \in EligibleSteps : e[1] = i}}

IsCacheStep(o, step, action, other) ==
    /\ HasOwn(o, "name") /\ o.name = step.name \o "-cache-" \o action
    /\ HasOwn(o, "settings")
    /\ HasOwn(o.settings, action) /\ o.settings[action] = TRUE
    /\ ~HasOwn(o.settings, other)

(***************************************************************************)
(* C1.  In the returned text, every cache-eligible step S of a pipeline    *)
(* document with steps is replaced by three consecutive steps: one named   *)
(* S.name-cache-restore with settings.restore true and no settings.rebuild,*)
(* then S (all its fields but volumes), then one named S.name-cache-rebuild*)
(* with settings.rebuild true and no settings.restore; every other step    *)
(* stands once, and the input order of the steps is kept.                  *)
(***************************************************************************)
C1_ThreeStepsInOrder ==
    Returned =>
        \A i \in DOMAIN config : Rewritten(i) =>
            /\ Shaped(i)
            /\ \A j \in DOMAIN InSteps(i) :
                 LET S == InSteps(i)[j]
                 IN  IF Eligible(S)
                     THEN /\ IsCacheStep(Out(i, j, 1), S, "restore", "rebuild")
                          /\ ButVolumes(Out(i, j, 2)) = ButVolumes(S)
                          /\ IsCacheStep(Out(i, j, 3), S, "rebuild", "restore")
                     ELSE ButVolumes(Out(i, j, 1)) = ButVolumes(S)

\* a document with an eligible step and another step has been rewritten
C1_Witness ==
    /\ Returned
    /\ \E i \in DOMAIN config :
         /\ Rewritten(i) /\ Len(InSteps(i)) = 2
         /\ ~Eligible(InSteps(i)[1]) /\ Eligible(InSteps(i)[2])
         /\ Len(result[i].steps) = 4
         /\ result[i].steps[2].name = "test-cache-restore"

C3_PassThrough ==
    (Returned /\ EligibleSteps = {}) =>
        /\ Len(result) = Len(config)
        /\ \A i \in DOMAIN config : result[i] = LiteralDoc(i)

\* a stream of two documents has gone through: a document that is no
\* pipeline and has a step asking for npm, and a pipeline with a step
C3_Witness ==
    /\ Returned /\ EligibleSteps = {}
    /\ Len(config) = 2 /\ Len(result) = 2
    /\ config[1].root.kind = "secret" /\ HasOwn(config[1].root, "steps")
    /\ Rewritten(2) /\ Len(InSteps(2)) = 1

(***************************************************************************)
(* C4.  Every step of a pipeline document that is not cache-eligible       *)
(* stands once in the output and is equal to the input step in every       *)
(* field, its volumes list included, whatever other steps expand to.       *)
(***************************************************************************)
C4_IneligibleStepUntouched ==
    Returned =>
        \A i \in DOMAIN config : Rewritten(i) =>
            /\ Shaped(i)
            /\ \A j \in DOMAIN InSteps(i) :
                 ~Eligible(InSteps(i)[j]) => Out(i, j, 1) = Literal(i, InSteps(i)[j])

(***************************************************************************)
(* C5.  settings.mount of the restore and of the rebuild step of an        *)
(* eligible step S lists the registry paths of the kinds of S's CacheSet,  *)
(* each once, in registry order, whatever the order or repetition in       *)
(* S.caches; the non-rooted path is listed too.                            *)
(***************************************************************************)
C5_SettingsMount ==
    Returned =>
        \A ij \in EligibleSteps :
            LET i == ij[1]
                j == ij[2]
                ks == InRegistryOrder(CacheSet(InSteps(i)[j]))
                paths == [n \in DOMAIN ks |-> RegistryPath(ks[n])]
            IN  /\ Shaped(i)
                /\ \A k \in {1, 3} :
                     /\ HasOwn(Out(i, j, k), "settings")
                     /\ HasOwn(Out(i, j, k).settings, "mount")
                     /\ Out(i, j, k).settings.mount = paths

\* a step lists maven before npm, or yarn with a rooted kind
C5_Witness ==
    /\ Returned
    /\ \E ij \in EligibleSteps :
         /\ InSteps(ij[1])[ij[2]].caches.array = <<"maven", "npm">>
         /\ Out(ij[1], ij[2], 1).settings.mount = <<"/root/.npm", "/root/.m2/repository">>

\* list is before followed by exactly the mounts, each once
ExtendedBy(list, before, mounts) ==
    /\ Len(list) = Len(before) + Len(mounts)
    /\ SubSeq(list, 1, Len(before)) = before
    /\ {list[n] : n \in (Len(before) + 1)..Len(list)} = Range(mounts)

(***************************************************************************)
(* C6.  For an eligible step S with CacheSet C, each of the three steps    *)
(* has its volumes list extended by exactly one mount per rooted kind of   *)
(* C, after the list it had (the cache mount alone for restore and         *)
(* rebuild, S's input list for S); no mount and no document volume is      *)
(* named after a non-rooted kind; S's other fields are unchanged.          *)
(***************************************************************************)
C6_RootedMountsOnly ==
    Returned =>
        /\ \A ij \in EligibleSteps :
             LET i == ij[1]
                 j == ij[2]
                 S == InSteps(i)[j]
                 mounts == RootedMounts(CacheSet(S))
             IN  /\ Shaped(i)
                 /\ \A k \in {1, 3} :
                      /\ HasOwn(Out(i, j, k), "volumes")
                      /\ Len(Out(i, j, k).volumes) >= 1
                      /\ Out(i, j, k).volumes[1].name = "cache"
                      /\ ExtendedBy(Out(i, j, k).volumes,
                                    <<Out(i, j, k).volumes[1]>>, mounts)
                 /\ HasOwn(Out(i, j, 2), "volumes")
                 /\ ExtendedBy(Out(i, j, 2).volumes, InList(i, S), mounts)
                 /\ ButVolumes(Out(i, j, 2)) = ButVolumes(S)
        /\ \A i \in DOMAIN result :
             /\ HasOwn(result[i], "volumes") =>
                  \A n \in DOMAIN result[i].volumes :
                      result[i].volumes[n].name \notin RegistryKinds \ RootedKinds
             /\ (Rewritten(i) /\ HasOwn(result[i], "steps")) =>
                  \A j \in DOMAIN result[i].steps :
                      HasOwn(result[i].steps[j], "volumes") =>
                          \A n \in DOMAIN result[i].steps[j].volumes :
                              result[i].steps[j].volumes[n].name
                                  \notin RegistryKinds \ RootedKinds

\* the keys CACHE_r of env, and an environment that is their remapping
Remapped(key) == "PLUGIN_" \o SubSeq(key, 7, Len(key))

CacheKeys == {key \in DOMAIN env : StartsWith(key, "CACHE_")}

RemappedExactly(environment) ==
    /\ DOMAIN environment = {Remapped(key) : key \in CacheKeys}
    /\ \A key \in CacheKeys : environment[Remapped(key)] = env[key]

(***************************************************************************)
(* C7.  The environment of every generated restore and rebuild step has    *)
(* exactly the keys PLUGIN_r for the keys CACHE_r of env, each with env's  *)
(* value for CACHE_r; no key of env that does not begin with CACHE_ is a   *)
(* key of a generated step's environment; the original step gets no        *)
(* environment.                                                            *)
(***************************************************************************)
C7_NoOtherKeyAppears ==
    Returned =>
        \A ij \in EligibleSteps :
            /\ Shaped(ij[1])
            /\ ~HasOwn(Out(ij[1], ij[2], 2), "environment")
            /\ \A k \in {1, 3} :
                 /\ HasOwn(Out(ij[1], ij[2], k), "environment")
                 /\ RemappedExactly(Out(ij[1], ij[2], k).environment)
                 /\ \A key \in DOMAIN env \ CacheKeys :
                        key \notin DOMAIN Out(ij[1], ij[2], k).environment

\* C7, amended.  As C7, but a key of env that does not begin with CACHE_ is
\* a key of a generated step's environment only when it is the remapped name
\* PLUGIN_r of a key CACHE_r of env, and it then has env's value for CACHE_r.
C7_OnlyCacheKeysRemapped ==
    Returned =>
        \A ij \in EligibleSteps :
            /\ Shaped(ij[1])
            /\ ~HasOwn(Out(ij[1], ij[2], 2), "environment")
            /\ \A k \in {1, 3} :
                 /\ HasOwn(Out(ij[1], ij[2], k), "environment")
                 /\ RemappedExactly(Out(ij[1], ij[2], k).environment)
                 /\ \A key \in DOMAIN env \ CacheKeys :
                        key \in DOMAIN Out(ij[1], ij[2], k).environment =>
                            \E c \in CacheKeys :
                                /\ Remapped(c) = key
                                /\ Out(ij[1], ij[2], k).environment[key] = env[c]

\* the environment holds a CACHE_ key and another key, and a step has been
\* generated
C7_Witness ==
    /\ Returned
    /\ DOMAIN env = {"CACHE_FOO", "MY_CACHE_DIR"}
    /\ \E ij \in EligibleSteps :
         Out(ij[1], ij[2], 3).environment = [PLUGIN_FOO |-> "bar"]

(***************************************************************************)
(* C8.  If an eligible step S has a when field, its restore and rebuild    *)
(* steps have a when field equal to it; if S has none, neither has one;    *)
(* S's own when is unchanged.                                              *)
(***************************************************************************)
C8_WhenCopied ==
    Returned =>
        \A ij \in EligibleSteps :
            LET S == InSteps(ij[1])[ij[2]]
            IN  /\ Shaped(ij[1])
                /\ \A k \in {1, 2, 3} :
                     /\ HasOwn(Out(ij[1], ij[2], k), "when") <=> HasOwn(S, "when")
                     /\ HasOwn(S, "when") => Out(ij[1], ij[2], k).when = S.when

\* an eligible step with a when field has been expanded
C8_Witness ==
    /\ Returned
    /\ \E ij \in EligibleSteps :
         /\ HasOwn(InSteps(ij[1])[ij[2]], "when")
         /\ Out(ij[1], ij[2], 1).when = "foo"
         /\ Out(ij[1], ij[2], 3).when = "foo"

\* output document i is what input document i alone asks for
C9_DocumentState(i) ==
    /\ ButVolumes(result[i]) =
           IF Rewritten(i)
           THEN [ButVolumes(config[i].root) EXCEPT !.steps = result[i].steps]
           ELSE ButVolumes(config[i].root)
    /\ Rewritten(i) => Shaped(i)
    /\ IF Rewritten(i) /\ UsedKinds(i) # {}
       THEN /\ HasOwn(result[i], "volumes")
            /\ {v \in Range(result[i].volumes) : HasOwn(v, "temp")}
                   = {[name |-> k, temp |-> EmptyObj] : k \in UsedKinds(i) \cap RootedKinds}
       ELSE result[i] = LiteralDoc(i)

(***************************************************************************)
(* C9.  The returned text has one document per input document, in the same *)
(* order, and document i depends on input document i and the configuration *)
(* alone: equal input documents of a stream give equal output documents,   *)
(* the ephemeral volumes and the step count of document i come from the    *)
(* kinds and steps of document i only, and no step of a call changes the   *)
(* image, the cache path or the cache environment.                         *)
(***************************************************************************)
C9_DocumentsIndependent ==
    /\ [](Returned =>
            /\ Len(result) = Len(config)
            /\ \A i \in DOMAIN config : C9_DocumentState(i)
            /\ \A i, j \in DOMAIN config : config[i] = config[j] => result[i] = result[j])
    /\ [][cacheEnv' = cacheEnv /\ image' = image /\ cachePath' = cachePath]_vars

\* a stream of two documents that use different kinds has been rewritten
C9_Witness ==
    /\ Returned
    /\ Len(config) = 2
    /\ Rewritten(1) /\ Rewritten(2)
    /\ UsedKinds(1) = {"npm"} /\ UsedKinds(2) = {"yarn"}
    /\ Len(result[1].volumes) = 2
    /\ Len(result[2].volumes) = 1

(***************************************************************************)
(* C10.  The first volume of every generated restore and rebuild step is a *)
(* mount named cache whose path is env's CACHE_FILESYSTEM_CACHE_ROOT when  *)
(* env has that key and /tmp/cache otherwise; the document-level host      *)
(* volume named cache has host.path = cachePath whatever that key is.      *)
(***************************************************************************)
C10_CacheRoot ==
    Returned =>
        \A ij \in EligibleSteps :
            LET i == ij[1]
                root == IF HasOwn(env, "CACHE_FILESYSTEM_CACHE_ROOT")
                        THEN env["CACHE_FILESYSTEM_CACHE_ROOT"]
                        ELSE "/tmp/cache"
            IN  /\ Shaped(i)
                /\ \A k \in {1, 3} :
                     /\ HasOwn(Out(i, ij[2], k), "volumes")
                     /\ Len(Out(i, ij[2], k).volumes) >= 1
                     /\ Out(i, ij[2], k).volumes[1] = [name |-> "cache", path |-> root]
                /\ HasOwn(result[i], "volumes")
                /\ \E n \in DOMAIN result[i].volumes :
                     result[i].volumes[n] = [name |-> "cache", host |-> [path |-> cachePath]]
                /\ \A n \in DOMAIN result[i].volumes :
                     (result[i].volumes[n].name = "cache") =>
                         result[i].volumes[n] = [name |-> "cache", host |-> [path |-> cachePath]]

\* the environment sets CACHE_FILESYSTEM_CACHE_ROOT and a step has been
\* generated
C10_Witness ==
    /\ Returned
    /\ HasOwn(env, "CACHE_FILESYSTEM_CACHE_ROOT")
    /\ \E ij \in EligibleSteps :
         /\ Out(ij[1], ij[2], 1).volumes[1].path = "/bar"
         /\ result[ij[1]].volumes[Len(InList(ij[1], config[ij[1]].root)) + 1].host.path
                = "/var/lib/cache"

====
